---- MODULE Spec2Model ----
(***************************************************************************)
(* Model of stargate/src/main.rs: the gateway shell around the query       *)
(* engine.  The bootstrap (main, init_observability) is one sequential     *)
(* process whose position is pc; once the server runs, requests are        *)
(* handled concurrently by the workers, each request advancing through     *)
(* the TracingLogger middleware, the web::Json extractor and the two       *)
(* halves of the async handler index (before and after the .await).        *)
(***************************************************************************)
EXTENDS Naturals, FiniteSets, Sequences, TLC

\* ------------------------------------------------------------------ bounds
MaxReqs == 2
NumWorkers == 2
MaxObsCalls == 2

Reqs == 1..MaxReqs
Workers == 1..NumWorkers

\* --------------------------------------------------------------- the inputs
\* opt.manifest names a file; the kinds of file a run can be pointed at.
Paths == {"missing.graphql", "secret.graphql", "hello.graphql", "broken.graphql"}

\* Raw POST bodies a client can send.
Bodies == {"{\"query\":\"{ hello }\"}", "{\"query\":\"{ __typename }\"}",
           "{\"query\":\"{ nope }\"}", "{\"query\":\"{ hello\"}", "{ not json"}

\* The Origin header of a request: the trusted origin or another one.
Origins == {"https://studio.apollographql.com", "https://evil.example"}

\* The request heads a browser can send: a POST, or a CORS preflight (an
\* OPTIONS request asking for POST), each with its Origin header.
\* The body is read from the connection later, by the extractor.
Inputs == [method : {"POST", "OPTIONS"}, origin : Origins]

VARIABLES
    opt,              \* Opt::default(): structured_logging, manifest
    pc,               \* the statement of main / init_observability to run next
    proc,             \* "running" | "panicked" | "exited_err"
    failed,           \* the startup step that failed, "none" if none did
    diagnostic,       \* the message the process died with
    logger_set,       \* log crate's global logger (LogTracer) is installed
    jaeger_exporter,  \* local of init_observability: exporter built
    provider,         \* local of init_observability: sdk::Provider built
    subscriber,       \* tracing's global default: "none" | "bunyan" | "fmt"
    installs,         \* successful calls of set_global_default so far
    global_provider,  \* opentelemetry::global provider registered
    obs_ok,           \* init_observability has returned Ok(())
    obs_calls,        \* calls of init_observability begun so far
    MANIFEST,         \* static mut MANIFEST
    manifest_writes,  \* assignments to MANIFEST so far
    stargate,         \* the engine: [built, schema]
    bound,            \* the socket is bound
    listening,        \* the accept loop runs
    events,           \* trace/log events emitted so far, each with whether
                      \* a subscriber was installed to receive it
    worker,           \* each worker thread: "unstarted" | "running" | "dead"
    req               \* each request's handling state

boot == <<opt, pc, proc, failed, diagnostic, logger_set, jaeger_exporter,
          provider, subscriber, installs, global_provider, obs_ok, obs_calls,
          MANIFEST, manifest_writes, stargate, bound, listening>>
vars == <<boot, events, worker, req>>

\* ------------------------------------------------------- external contracts
\* std::fs::read_to_string(&opt.manifest)
read_to_string(path) ==
    CASE path = "hello.graphql"  ->
           [ok |-> TRUE,  text |-> "type Query { hello: String }", err |-> ""]
      [] path = "broken.graphql" ->
           [ok |-> TRUE,  text |-> "type Query {", err |-> ""]
      [] path = "secret.graphql" ->
           [ok |-> FALSE, text |-> "", err |-> "PermissionDenied"]
      [] OTHER                   ->
           [ok |-> FALSE, text |-> "", err |-> "NotFound"]

\* The io::Error kinds .bind(..) can fail with.
BindErrors == {"AddrInUse", "PermissionDenied"}

\* What the process prints when it dies: the message of the expect that
\* panicked, or the io::Error main returned (printed by the runtime as
\* Error: <error>, without more).
PanicMessage(msg) == <<"panicked at", msg>>
ReturnedError(kind) == <<"Error:", kind>>

\* The schema parse inside Stargate::new: whether the manifest text is a schema.
parse_schema_ok(text) == text = "type Query { hello: String }"

\* serde_json decoding of a body into GraphQLRequest, as web::Json does it.
Decode(body) ==
    CASE body = "{\"query\":\"{ hello }\"}" -> [ok |-> TRUE,  query |-> "{ hello }"]
      [] body = "{\"query\":\"{ __typename }\"}" -> [ok |-> TRUE,  query |-> "{ __typename }"]
      [] body = "{\"query\":\"{ nope }\"}"  -> [ok |-> TRUE,  query |-> "{ nope }"]
      [] body = "{\"query\":\"{ hello\"}"   -> [ok |-> TRUE,  query |-> "{ hello"]
      [] OTHER                              -> [ok |-> FALSE, query |-> ""]

NoResult == [ok |-> FALSE, err |-> "none", data |-> <<>>]

\* Stargate::execute_query(&context): Result<QueryResult, ExecutionError>.
\* A query that does not parse or does not validate against the schema is an
\* error; a valid one succeeds with the data for it, or fails in execution.
execute_query(sg, context) ==
    LET q == context.graphql_request.query IN
    IF ~sg.built
    THEN {[ok |-> FALSE, err |-> "engine-unbuilt", data |-> <<>>]}
    ELSE CASE q = "{ hello }" ->
                 {[ok |-> TRUE,  err |-> "none", data |-> <<"hello", sg.schema>>],
                  [ok |-> FALSE, err |-> "execution-error", data |-> <<>>]}
           [] q = "{ __typename }" ->
                 {[ok |-> TRUE,  err |-> "none", data |-> <<"__typename", "Query">>]}
           [] q = "{ nope }"  ->
                 {[ok |-> FALSE, err |-> "validation-error", data |-> <<>>]}
           [] OTHER           ->
                 {[ok |-> FALSE, err |-> "malformed-request", data |-> <<>>]}

\* serde_json serialization of a QueryResult: HttpResponse::json(result).
ToJson(result) == <<"{\"data\":">> \o result.data \o <<"}">>

\* --------------------------------------------------------------- tracing
\* debug!(..), a span: the event reaches a subscriber only if one is installed.
Emit(site) == events \cup {[site |-> site, installed |-> subscriber # "none"]}

\* -------------------------------------------------------------------- Init
NoContext == [graphql_request |-> [query |-> ""]]
NoSeen == [obs |-> FALSE, manifest |-> FALSE, engine |-> FALSE]
NoResponse == [status |-> 0, content_type |-> "", body |-> <<>>]
NoCors == [allow_origin |-> "", allow_credentials |-> FALSE, allow_methods |-> {}]
NoReq == [pc |-> "new", method |-> "", origin |-> "", body |-> "", wk |-> 0,
          trail |-> <<>>, unwound |-> <<>>, span |-> "none", ispan |-> "none",
          request |-> [query |-> ""],
          context |-> NoContext, seen |-> NoSeen, executed |-> FALSE,
          result |-> NoResult, response |-> NoResponse, headers |-> NoCors]

Init ==
    /\ opt \in [structured_logging : BOOLEAN, manifest : Paths]
    /\ pc = "log_tracer_init"
    /\ proc = "running"
    /\ failed = "none"
    /\ diagnostic = <<>>
    /\ logger_set = FALSE
    /\ jaeger_exporter = FALSE
    /\ provider = FALSE
    /\ subscriber = "none"
    /\ installs = 0
    /\ global_provider = FALSE
    /\ obs_ok = FALSE
    /\ obs_calls = 0
    /\ MANIFEST = ""
    /\ manifest_writes = 0
    /\ stargate = [built |-> FALSE, schema |-> ""]
    /\ bound = FALSE
    /\ listening = FALSE
    /\ events = {}
    /\ worker = [w \in Workers |-> "unstarted"]
    /\ req = [r \in Reqs |-> NoReq]

\* ------------------------------------------------------- init_observability
\* Variant: the server is bound and run right after init_observability and
\* the manifest and the engine are loaded while it already serves.
After_ServeBeforeLoad(step) ==
    CASE step = "log_tracer_init"    -> "exporter_init"
      [] step = "exporter_init"      -> "provider_build"
      [] step = "provider_build"     -> "set_global_default"
      [] step = "set_global_default" -> "set_provider"
      [] step = "set_provider"       -> "bind"
      [] step = "bind"               -> "run"
      [] step = "run"                -> "read_manifest"
      [] step = "read_manifest"      -> "stargate_new"
      [] step = "stargate_new"       -> "serving"

\* Variant: the socket is bound before the engine is constructed.
After_BindBeforeEngine(step) ==
    CASE step = "log_tracer_init"    -> "exporter_init"
      [] step = "exporter_init"      -> "provider_build"
      [] step = "provider_build"     -> "set_global_default"
      [] step = "set_global_default" -> "set_provider"
      [] step = "set_provider"       -> "read_manifest"
      [] step = "read_manifest"      -> "bind"
      [] step = "bind"               -> "stargate_new"
      [] step = "stargate_new"       -> "run"
      [] step = "run"                -> "serving"

\* Variant: the global provider is registered before the subscriber is
\* installed.
After_ProviderBeforeSubscriber(step) ==
    CASE step = "log_tracer_init"    -> "exporter_init"
      [] step = "exporter_init"      -> "provider_build"
      [] step = "provider_build"     -> "set_provider"
      [] step = "set_provider"       -> "set_global_default"
      [] step = "set_global_default" -> "read_manifest"
      [] step = "read_manifest"      -> "stargate_new"
      [] step = "stargate_new"       -> "bind"
      [] step = "bind"               -> "run"
      [] step = "run"                -> "serving"

\* The statement order of main, with init_observability inlined at its call:
\* the statement that runs after each one has completed successfully.
After(step) ==
    CASE step = "log_tracer_init"    -> "exporter_init"
      [] step = "exporter_init"      -> "provider_build"
      [] step = "provider_build"     -> "set_global_default"
      [] step = "set_global_default" -> "set_provider"
      [] step = "set_provider"       -> "read_manifest"
      [] step = "read_manifest"      -> "stargate_new"
      [] step = "stargate_new"       -> "bind"
      [] step = "bind"               -> "run"
      [] step = "run"                -> "serving"

\* A panic (expect) or an Err returned from main: the process ends.
Die(how, step, msg) ==
    /\ proc' = how
    /\ failed' = step
    /\ diagnostic' = msg
    /\ pc' = "dead"

Live == UNCHANGED <<proc, failed, diagnostic>>

\* Variant: a call that finds the logger already set returns Ok(()) at once
\* instead of failing.
LogTracerInit_ReturnsOk ==
    /\ pc = "log_tracer_init" /\ proc = "running"
    /\ obs_calls' = obs_calls + 1
    /\ IF logger_set
       THEN /\ pc' = After("set_provider")
            /\ UNCHANGED logger_set
       ELSE /\ logger_set' = TRUE
            /\ pc' = After("log_tracer_init")
    /\ Live
    /\ UNCHANGED <<opt, jaeger_exporter, provider, subscriber, installs,
                   global_provider, obs_ok, MANIFEST, manifest_writes,
                   stargate, bound, listening, events, worker, req>>

\* LogTracer::init().expect("Failed to set logger"): the log crate accepts one
\* global logger; a second is an error.
LogTracerInit ==
    /\ pc = "log_tracer_init" /\ proc = "running"
    /\ obs_calls' = obs_calls + 1
    /\ IF logger_set
       THEN /\ Die("panicked", "log_bridge", PanicMessage("Failed to set logger"))
            /\ UNCHANGED logger_set
       ELSE /\ logger_set' = TRUE
            /\ pc' = After("log_tracer_init")
            /\ Live
    /\ UNCHANGED <<opt, jaeger_exporter, provider, subscriber, installs,
                   global_provider, obs_ok, MANIFEST, manifest_writes,
                   stargate, bound, listening, events, worker, req>>

\* Variant: an exporter error is dropped (.init().ok()) and startup goes on
\* without an exporter.
ExporterInit_Swallow ==
    /\ pc = "exporter_init" /\ proc = "running"
    /\ events' = Emit("debug:initializing jaeger trace exporter")
    /\ \E ok \in BOOLEAN :
         /\ jaeger_exporter' = ok
         /\ failed' = IF ok THEN failed ELSE "exporter"
         /\ pc' = After("exporter_init")
         /\ UNCHANGED <<proc, diagnostic>>
    /\ UNCHANGED <<opt, obs_calls, logger_set, provider, subscriber, installs,
                   global_provider, obs_ok, MANIFEST, manifest_writes,
                   stargate, bound, listening, worker, req>>

\* debug!("initializing jaeger trace exporter"); Exporter::builder()...init()?
\* An Err leaves init_observability through ? and main's expect panics on it.
ExporterInit ==
    /\ pc = "exporter_init" /\ proc = "running"
    /\ events' = Emit("debug:initializing jaeger trace exporter")
    /\ \E ok \in BOOLEAN :
         IF ok
         THEN /\ jaeger_exporter' = TRUE
              /\ pc' = After("exporter_init")
              /\ Live
         ELSE /\ Die("panicked", "exporter", PanicMessage("failed to initialize tracer."))
              /\ UNCHANGED jaeger_exporter
    /\ UNCHANGED <<opt, obs_calls, logger_set, provider, subscriber, installs,
                   global_provider, obs_ok, MANIFEST, manifest_writes,
                   stargate, bound, listening, worker, req>>

\* debug!("initializing trace provider"); sdk::Provider::builder()...build()
ProviderBuild ==
    /\ pc = "provider_build" /\ proc = "running"
    /\ events' = Emit("debug:initializing trace provider")
    /\ provider' = TRUE
    /\ pc' = After("provider_build")
    /\ Live
    /\ UNCHANGED <<opt, obs_calls, logger_set, jaeger_exporter, subscriber, installs,
                   global_provider, obs_ok, MANIFEST, manifest_writes,
                   stargate, bound, listening, worker, req>>

\* The formatting layer the flag selects.
FormatLayer(structured_logging) == IF structured_logging THEN "bunyan" ELSE "fmt"

\* Variant: only the structured branch installs the subscriber.
SetGlobalDefault_OneBranch ==
    /\ pc = "set_global_default" /\ proc = "running"
    /\ IF opt.structured_logging
       THEN IF subscriber # "none"
            THEN /\ Die("panicked", "subscriber", PanicMessage("Failed to set subscriber"))
                 /\ UNCHANGED <<subscriber, installs>>
            ELSE /\ subscriber' = "bunyan"
                 /\ installs' = installs + 1
                 /\ pc' = After("set_global_default")
                 /\ Live
       ELSE /\ pc' = After("set_global_default")
            /\ Live
            /\ UNCHANGED <<subscriber, installs>>
    /\ UNCHANGED <<opt, obs_calls, logger_set, jaeger_exporter, provider,
                   global_provider, obs_ok, MANIFEST, manifest_writes,
                   stargate, bound, listening, events, worker, req>>

\* Both branches of if structured_logging: compose the subscriber and
\* set_global_default(subscriber).expect("Failed to set subscriber"); the
\* global default can be set once, a second set is an error.
SetGlobalDefault ==
    /\ pc = "set_global_default" /\ proc = "running"
    /\ IF subscriber # "none"
       THEN /\ Die("panicked", "subscriber", PanicMessage("Failed to set subscriber"))
            /\ UNCHANGED <<subscriber, installs>>
       ELSE /\ subscriber' = FormatLayer(opt.structured_logging)
            /\ installs' = installs + 1
            /\ pc' = After("set_global_default")
            /\ Live
    /\ UNCHANGED <<opt, obs_calls, logger_set, jaeger_exporter, provider,
                   global_provider, obs_ok, MANIFEST, manifest_writes,
                   stargate, bound, listening, events, worker, req>>

\* debug!("setting global trace provider"); global::set_provider(provider);
\* Ok(()) and main's expect passes.
SetProvider ==
    /\ pc = "set_provider" /\ proc = "running"
    /\ events' = Emit("debug:setting global trace provider")
    /\ global_provider' = TRUE
    /\ obs_ok' = TRUE
    /\ pc' = After("set_provider")
    /\ Live
    /\ UNCHANGED <<opt, obs_calls, logger_set, jaeger_exporter, provider, subscriber,
                   installs, MANIFEST, manifest_writes, stargate, bound,
                   listening, worker, req>>

\* -------------------------------------------------------------------- main
\* debug!("Initializing stargate instance");
\* MANIFEST = fs::read_to_string(&opt.manifest)?  -- an Err returns from main
\* before the assignment.
ReadManifest ==
    /\ pc = "read_manifest" /\ proc = "running"
    /\ events' = Emit("debug:Initializing stargate instance")
    /\ LET got == read_to_string(opt.manifest) IN
         IF got.ok
         THEN /\ MANIFEST' = got.text
              /\ manifest_writes' = manifest_writes + 1
              /\ pc' = After("read_manifest")
              /\ Live
         ELSE /\ Die("exited_err", "manifest", ReturnedError(got.err))
              /\ UNCHANGED <<MANIFEST, manifest_writes>>
    /\ UNCHANGED <<opt, obs_calls, logger_set, jaeger_exporter, provider, subscriber,
                   installs, global_provider, obs_ok, stargate, bound,
                   listening, worker, req>>

\* Variant: the engine is not built during startup (left for later).
StargateNew_Deferred ==
    /\ pc = "stargate_new" /\ proc = "running"
    /\ pc' = After("stargate_new")
    /\ Live
    /\ UNCHANGED <<opt, obs_calls, logger_set, jaeger_exporter, provider, subscriber,
                   installs, global_provider, obs_ok, MANIFEST,
                   manifest_writes, stargate, bound, listening, events,
                   worker, req>>

\* Stargate::new(&MANIFEST); web::Data::new(ServerState { stargate }).
\* The engine borrows the manifest text; a text that is no schema aborts.
StargateNew ==
    /\ pc = "stargate_new" /\ proc = "running"
    /\ IF parse_schema_ok(MANIFEST)
       THEN /\ stargate' = [built |-> TRUE, schema |-> MANIFEST]
            /\ pc' = After("stargate_new")
            /\ Live
       ELSE /\ Die("panicked", "engine", PanicMessage("failed parsing schema"))
            /\ UNCHANGED stargate
    /\ UNCHANGED <<opt, obs_calls, logger_set, jaeger_exporter, provider, subscriber,
                   installs, global_provider, obs_ok, MANIFEST,
                   manifest_writes, bound, listening, events, worker, req>>

\* HttpServer::new(..).bind(format!("127.0.0.1:{}", opt.port))?
Bind ==
    /\ pc = "bind" /\ proc = "running"
    /\ \E out \in {"ok"} \cup BindErrors :
         IF out = "ok"
         THEN /\ bound' = TRUE
              /\ pc' = After("bind")
              /\ Live
         ELSE /\ Die("exited_err", "bind", ReturnedError(out))
              /\ UNCHANGED bound
    /\ UNCHANGED <<opt, obs_calls, logger_set, jaeger_exporter, provider, subscriber,
                   installs, global_provider, obs_ok, MANIFEST,
                   manifest_writes, stargate, listening, events, worker, req>>

\* .run().await: the workers start and the accept loop runs.
Run ==
    /\ pc = "run" /\ proc = "running"
    /\ listening' = TRUE
    /\ worker' = [w \in Workers |-> "running"]
    /\ pc' = After("run")
    /\ Live
    /\ UNCHANGED <<opt, obs_calls, logger_set, jaeger_exporter, provider, subscriber,
                   installs, global_provider, obs_ok, MANIFEST,
                   manifest_writes, stargate, bound, events, req>>

\* -------------------------------------------------------------- middleware
Reverse(s) == [i \in 1..Len(s) |-> s[Len(s) + 1 - i]]
Range(s) == {s[i] : i \in 1..Len(s)}

\* Cors::new().allowed_methods(..).allowed_origin(..).supports_credentials()
CorsPolicy ==
    [allowed_methods |-> {"GET", "POST", "OPTIONS"},
     allowed_origin |-> "https://studio.apollographql.com",
     supports_credentials |-> TRUE]

\* The middleware in the order App registers it with .wrap(..).
Wraps == <<"Logger", "TracingLogger", "Compress", "Cors">>

\* Each .wrap(..) wraps what was built so far, so the middleware registered
\* last is the outermost: a request meets the middleware in reverse order of
\* registration.
ExecOrder == Reverse(Wraps)

\* The CORS middleware on a request: a preflight is answered by the
\* middleware itself, a request whose Origin is not the allowed one is
\* rejected by it, anything else (no Origin header included) is passed on.
CorsVerdict(method, origin) ==
    IF method = "OPTIONS"
    THEN IF origin = CorsPolicy.allowed_origin /\ "POST" \in CorsPolicy.allowed_methods
         THEN "preflight" ELSE "reject"
    ELSE IF origin # "none" /\ origin # CorsPolicy.allowed_origin
         THEN "reject" ELSE "pass"

\* The middleware a request enters: all of it, or up to the CORS middleware
\* when that answers the request itself.
Entered(verdict) ==
    IF verdict = "pass" THEN ExecOrder
    ELSE SubSeq(ExecOrder, 1, CHOOSE i \in 1..Len(ExecOrder) : ExecOrder[i] = "Cors")

\* The Access-Control-Allow-* headers the CORS middleware puts on a response.
CorsHeaders(verdict, origin) ==
    CASE verdict = "preflight" ->
           [allow_origin |-> origin,
            allow_credentials |-> CorsPolicy.supports_credentials,
            allow_methods |-> CorsPolicy.allowed_methods]
      [] verdict = "pass" /\ origin # "none" ->
           [allow_origin |-> origin,
            allow_credentials |-> CorsPolicy.supports_credentials,
            allow_methods |-> {}]
      [] OTHER -> NoCors

\* The response the CORS middleware gives when it answers a request itself.
CorsResponse(verdict) ==
    IF verdict = "preflight"
    THEN [status |-> 200, content_type |-> "", body |-> <<>>]
    ELSE [status |-> 400, content_type |-> "text/plain",
          body |-> <<"Origin is not allowed to make this request">>]

\* A span is closed when the last handle to it is dropped.
Closed(span) == IF span = "open" THEN "closed" ELSE span

\* A response produced behind the middleware travels back through the
\* middleware the request entered: the spans close and the CORS middleware
\* adds its headers.
Reply(q, resp) ==
    [q EXCEPT !.pc = "done",
              !.response = resp,
              !.unwound = Reverse(q.trail),
              !.span = Closed(q.span),
              !.ispan = Closed(q.ispan),
              !.headers = IF "Cors" \in Range(q.trail)
                          THEN CorsHeaders("pass", q.origin) ELSE NoCors]

\* Variant: the handles to the spans are leaked by the panic.
Unwound_LeaksSpans(q) == [q EXCEPT !.pc = "panicked"]

\* A panic in the handler unwinds its task: no response travels back, the
\* futures holding the spans are dropped.
Unwound(q) ==
    [q EXCEPT !.pc = "panicked", !.span = Closed(q.span), !.ispan = Closed(q.ispan)]

\* ---------------------------------------------------------------- requests
\* A request's handling task runs on its worker thread while that is alive.
OnLiveWorker(r) == req[r].wk \in Workers /\ worker[req[r].wk] = "running"

\* The accept loop hands a connection to a worker and the request enters the
\* middleware, which runs without suspending up to the extractor's read of
\* the body: the CORS middleware may answer it, TracingLogger opens the
\* request's root span.
Accept(r, w) ==
    /\ listening /\ proc = "running"
    /\ worker[w] = "running"
    /\ req[r].pc = "new"
    /\ \E in \in Inputs :
         LET verdict == CorsVerdict(in.method, in.origin)
             trail == Entered(verdict)
             spanned == "TracingLogger" \in Range(trail)
             q == [req[r] EXCEPT !.method = in.method, !.origin = in.origin,
                                 !.wk = w, !.trail = trail,
                                 !.span = IF spanned THEN "open" ELSE "none"]
         IN /\ req' = [req EXCEPT ![r] =
                         IF verdict = "pass"
                         THEN [q EXCEPT !.pc = "extract"]
                         ELSE [q EXCEPT !.pc = "done",
                                        !.response = CorsResponse(verdict),
                                        !.unwound = Reverse(trail),
                                        !.headers = CorsHeaders(verdict, in.origin)]]
            /\ events' = IF spanned THEN Emit("span:request") ELSE events
    /\ UNCHANGED <<boot, worker>>

\* What actix-web answers when the web::Json extractor fails (the handler
\* declares no error handler of its own): 400 Bad Request, with an empty body
\* or the error's text as plain text depending on the framework version.
JsonPayloadErrorResponses ==
    {[status |-> 400, content_type |-> "", body |-> <<>>],
     [status |-> 400, content_type |-> "text/plain", body |-> <<"Json deserialize error">>]}

\* request: web::Json<GraphQLRequest>: the extractor reads the body and
\* decodes it before index is called.
Extract(r) ==
    /\ req[r].pc = "extract" /\ OnLiveWorker(r)
    /\ \E b \in Bodies :
         LET d == Decode(b) IN
         IF d.ok
         THEN req' = [req EXCEPT ![r] = [@ EXCEPT !.pc = "index", !.body = b,
                                                   !.request = [query |-> d.query]]]
         ELSE \E resp \in JsonPayloadErrorResponses :
                req' = [req EXCEPT ![r] = Reply([@ EXCEPT !.body = b], resp)]
    /\ UNCHANGED <<boot, events, worker>>

\* Variant: the handler reloads the manifest into MANIFEST on every request.
IndexCall_ReloadsManifest(r) ==
    /\ req[r].pc = "index" /\ OnLiveWorker(r)
    /\ events' = Emit("span:index")
    /\ MANIFEST' = read_to_string(opt.manifest).text
    /\ manifest_writes' = manifest_writes + 1
    /\ LET context == [graphql_request |-> req[r].request] IN
         \E out \in execute_query(stargate, context) :
           req' = [req EXCEPT ![r] =
                     [@ EXCEPT !.pc = "await",
                               !.ispan = "open",
                               !.context = context,
                               !.seen = [obs |-> obs_ok,
                                         manifest |-> manifest_writes > 0,
                                         engine |-> stargate.built],
                               !.executed = TRUE,
                               !.result = out]]
    /\ UNCHANGED <<opt, obs_calls, pc, proc, failed, diagnostic, logger_set,
                   jaeger_exporter, provider, subscriber, installs,
                   global_provider, obs_ok, stargate, bound, listening, worker>>

\* Variant: executing a query leaves its text in the engine, which later
\* executions read.
IndexCall_MutatesEngine(r) ==
    /\ req[r].pc = "index" /\ OnLiveWorker(r)
    /\ events' = Emit("span:index")
    /\ LET context == [graphql_request |-> req[r].request] IN
         /\ stargate' = [stargate EXCEPT !.schema = context.graphql_request.query]
         /\ \E out \in execute_query(stargate, context) :
              req' = [req EXCEPT ![r] =
                        [@ EXCEPT !.pc = "await",
                                  !.ispan = "open",
                                  !.context = context,
                                  !.seen = [obs |-> obs_ok,
                                            manifest |-> manifest_writes > 0,
                                            engine |-> stargate.built],
                                  !.executed = TRUE,
                                  !.result = out]]
    /\ UNCHANGED <<opt, obs_calls, pc, proc, failed, diagnostic, logger_set,
                   jaeger_exporter, provider, subscriber, installs,
                   global_provider, obs_ok, MANIFEST, manifest_writes, bound,
                   listening, worker>>

\* index up to the .await: #[instrument] opens the handler's span, the
\* payload is wrapped into the RequestContext and data.stargate.execute_query
\* is called on the shared engine.  seen records what the handler read.
IndexCall(r) ==
    /\ req[r].pc = "index" /\ OnLiveWorker(r)
    /\ events' = Emit("span:index")
    /\ LET context == [graphql_request |-> req[r].request] IN
         \E out \in execute_query(stargate, context) :
           req' = [req EXCEPT ![r] =
                     [@ EXCEPT !.pc = "await",
                               !.ispan = "open",
                               !.context = context,
                               !.seen = [obs |-> obs_ok,
                                         manifest |-> manifest_writes > 0,
                                         engine |-> stargate.built],
                               !.executed = TRUE,
                               !.result = out]]
    /\ UNCHANGED <<boot, worker>>

\* Variant: the awaited result is kept in one slot shared by all handlers, so
\* a handler resumes with the result of the latest call of any request.
AwaitedResult_Shared(r) ==
    LET waiting == {x \in Reqs : req[x].pc = "await"} IN
    req[CHOOSE x \in waiting : \A y \in waiting : y <= x].result

\* The result a resumed handler matches on.
AwaitedResult(r) == req[r].result

\* Variant: with structured logging on, the handler answers in a structured
\* envelope of its own.
IndexResume_FlagShapesReply(r) ==
    /\ req[r].pc = "await" /\ OnLiveWorker(r)
    /\ LET result == AwaitedResult(r) IN
         IF result.ok
         THEN /\ req' = [req EXCEPT ![r] =
                           Reply(@, [status |-> 200,
                                     content_type |-> "application/json",
                                     body |-> IF opt.structured_logging
                                              THEN <<"{\"v\":0,">> \o ToJson(result)
                                              ELSE ToJson(result)])]
              /\ UNCHANGED worker
         ELSE /\ req' = [req EXCEPT ![r] = Unwound(@)]
              /\ \E caught \in BOOLEAN :
                   worker' = IF caught THEN worker
                             ELSE [worker EXCEPT ![req[r].wk] = "dead"]
    /\ UNCHANGED <<boot, events>>

\* index after the .await: Ok(result) => Ok(HttpResponse::Ok().json(result));
\* Err(_) => todo!(..), a panic that unwinds the handler's task: the
\* connection is dropped without a response, and the worker thread dies with
\* the task unless the runtime it was spawned on catches the unwind.
IndexResume(r) ==
    /\ req[r].pc = "await" /\ OnLiveWorker(r)
    /\ LET result == AwaitedResult(r) IN
         IF result.ok
         THEN /\ req' = [req EXCEPT ![r] =
                           Reply(@, [status |-> 200,
                                     content_type |-> "application/json",
                                     body |-> ToJson(result)])]
              /\ UNCHANGED worker
         ELSE /\ req' = [req EXCEPT ![r] = Unwound(@)]
              /\ \E caught \in BOOLEAN :
                   worker' = IF caught THEN worker
                             ELSE [worker EXCEPT ![req[r].wk] = "dead"]
    /\ UNCHANGED <<boot, events>>

\* ------------------------------------------------------------------- Next
Next ==
    \/ LogTracerInit
    \/ ExporterInit
    \/ ProviderBuild
    \/ SetGlobalDefault
    \/ SetProvider
    \/ ReadManifest
    \/ StargateNew
    \/ Bind
    \/ Run
    \/ \E r \in Reqs, w \in Workers : Accept(r, w)
    \/ \E r \in Reqs : Extract(r)
    \/ \E r \in Reqs : IndexCall(r)
    \/ \E r \in Reqs : IndexResume(r)

Spec == Init /\ [][Next]_vars

\* init_observability called once more after it has returned: a caller that
\* the program does not have, for what the function does when the process
\* already has its logger, subscriber and provider.
CallAgain ==
    /\ pc = "read_manifest" /\ proc = "running"
    /\ obs_ok /\ obs_calls < MaxObsCalls
    /\ pc' = "log_tracer_init"
    /\ UNCHANGED <<opt, proc, failed, diagnostic, logger_set, jaeger_exporter,
                   provider, subscriber, installs, global_provider, obs_ok,
                   obs_calls, MANIFEST, manifest_writes, stargate, bound,
                   listening, events, worker, req>>

NextReinit == Next \/ CallAgain

SpecReinit == Init /\ [][NextReinit]_vars

\* ================================================================ properties
Started(r) == req[r].pc # "new"
Finished(r) == req[r].pc \in {"done", "panicked"}
Is4xx(n) == n >= 400 /\ n <= 499
Is5xx(n) == n >= 500 /\ n <= 599

\* C1: no handler calls execute_query before init_observability and the
\* manifest load have both returned successfully, and no connection is
\* accepted (the server does not listen) until the engine is constructed.
ExecuteOnlyAfterStartup ==
    /\ \A r \in Reqs : req[r].executed => req[r].seen.obs /\ req[r].seen.manifest
    /\ \A r \in Reqs : Started(r) => obs_ok /\ manifest_writes > 0 /\ stargate.built
    /\ listening => obs_ok /\ manifest_writes > 0 /\ stargate.built

\* C1 witness: a handler has called execute_query.
SomeRequestExecuted == \E r \in Reqs : req[r].executed

\* C2: a failed startup step ends the process with the socket never bound,
\* and the socket is bound only after every startup step has succeeded.
FailedStartupNeverBinds ==
    /\ failed # "none" => ~bound /\ ~listening /\ proc # "running"
    /\ bound \/ listening =>
         /\ failed = "none"
         /\ logger_set /\ jaeger_exporter /\ provider
         /\ subscriber # "none" /\ global_provider /\ obs_ok
         /\ manifest_writes > 0 /\ stargate.built

\* C2 witness: a startup step after the log bridge has failed and the process
\* has ended.
StartupStepFailed ==
    failed \in {"exporter", "manifest", "engine"} /\ proc # "running" /\ logger_set

ErrorsMapToHttpStatus ==
    \A r \in Reqs :
      req[r].executed /\ ~req[r].result.ok /\ req[r].pc # "await" =>
        /\ req[r].pc = "done"
        /\ req[r].result.err \in {"malformed-request", "validation-error"} =>
             /\ Is4xx(req[r].response.status)
             /\ req[r].response.content_type = "application/json"
        /\ req[r].result.err \in {"execution-error", "timeout"} =>
             Is5xx(req[r].response.status)

\* C5: a POST whose body does not decode is answered 4xx with a JSON error
\* payload, execute_query is not called for it and its worker stays alive.
UndecodableBodyGetsJson4xx ==
    \A r \in Reqs :
      req[r].body \in Bodies /\ ~Decode(req[r].body).ok =>
        /\ req[r].pc = "done"
        /\ Is4xx(req[r].response.status)
        /\ req[r].response.content_type = "application/json"
        /\ ~req[r].executed

\* C6: a request whose payload decodes and whose execute_query returns Ok(r)
\* is answered 200 OK with the JSON serialization of r, r being a result of
\* executing that request's own payload; and only such POSTs get a 200.
SuccessIs200WithOwnResult ==
    \A r \in Reqs :
      LET own == [graphql_request |-> [query |-> Decode(req[r].body).query]] IN
      /\ Finished(r) /\ req[r].executed /\ req[r].result.ok =>
           /\ req[r].pc = "done"
           /\ req[r].response = [status |-> 200,
                                 content_type |-> "application/json",
                                 body |-> ToJson(req[r].result)]
      /\ req[r].executed =>
           /\ Decode(req[r].body).ok
           /\ req[r].context = own
           /\ req[r].result \in execute_query(stargate, own)
      /\ req[r].response.status = 200 /\ req[r].method = "POST" =>
           /\ req[r].executed /\ req[r].result.ok
           /\ req[r].response.body = ToJson(req[r].result)

\* C6 witness: two requests answered 200 with different bodies.
TwoDifferentSuccesses ==
    \E r1, r2 \in Reqs :
      /\ req[r1].response.status = 200 /\ req[r2].response.status = 200
      /\ req[r1].response.body # req[r2].response.body

\* C7: set_global_default succeeds at most once in a run, the installed
\* subscriber is the one the flag selects, and whenever the socket is bound or
\* the server listens exactly one installation has happened.
SubscriberInstalledOnce ==
    /\ installs <= 1
    /\ installs = 0 <=> subscriber = "none"
    /\ subscriber # "none" => subscriber = FormatLayer(opt.structured_logging)
    /\ bound \/ listening => installs = 1

\* C7 witness: the server listens with the plain formatting layer installed.
ListeningWithPlainSubscriber ==
    listening /\ ~opt.structured_logging /\ subscriber = "fmt" /\ installs = 1

\* C8: every emitted trace or log event finds a subscriber installed.
NoEventBeforeSubscriber == \A e \in events : e.installed

\* C9: MANIFEST is assigned at most once, the assignment is complete when
\* engine construction begins, and once the engine is built MANIFEST still
\* holds the text the engine was built from.
ManifestSingleAssignment ==
    /\ manifest_writes <= 1
    /\ manifest_writes = 0 => MANIFEST = ""
    /\ pc = "stargate_new" => manifest_writes = 1
    /\ stargate.built => manifest_writes = 1 /\ stargate.schema = MANIFEST

\* C9 witness: requests have been handled by an engine built on the manifest.
EngineBuiltAndUsed ==
    /\ stargate.built /\ manifest_writes = 1
    /\ \E r \in Reqs : Finished(r) /\ req[r].executed

\* C10: every handler's read of the engine (and through it of the manifest
\* text) finds both completely written, and while any request is in flight
\* the bootstrap is at no statement that writes either.
NoReadBeforePublication ==
    /\ \A r \in Reqs : req[r].executed => req[r].seen.manifest /\ req[r].seen.engine
    /\ (\E r \in Reqs : req[r].pc \in {"extract", "index", "await"}) =>
         /\ pc \notin {"read_manifest", "stargate_new"}
         /\ stargate.built /\ stargate.schema = MANIFEST

\* C10 witness: two requests are inside the handler at once, on different
\* workers, both having read the engine.
TwoConcurrentReaders ==
    \E r1, r2 \in Reqs :
      /\ r1 # r2 /\ req[r1].wk # req[r2].wk
      /\ req[r1].pc = "await" /\ req[r2].pc = "await"

\* Two requests answered successfully for the same payload got equal results.
SameQuerySameResult ==
    \A r1, r2 \in Reqs :
      /\ req[r1].pc = "done" /\ req[r1].executed
      /\ req[r2].pc = "done" /\ req[r2].executed
      /\ req[r1].body = req[r2].body
      => /\ req[r1].result = req[r2].result
         /\ req[r1].response = req[r2].response

\* C11: a step of request handling, successful or not, changes the state of
\* one request only and leaves the manifest text, the engine and the
\* installed logger, subscriber and provider as they were; and after it any
\* two requests answered successfully for the same payload have equal results.
RequestsTouchOnlyThemselves ==
    [][ req' # req =>
          /\ UNCHANGED <<MANIFEST, manifest_writes, stargate, logger_set,
                         subscriber, installs, global_provider>>
          /\ Cardinality({r \in Reqs : req'[r] # req[r]}) = 1
          /\ SameQuerySameResult' ]_vars

\* C11 witness: the same well-formed query was answered successfully twice.
SameQueryAnsweredTwice ==
    \E r1, r2 \in Reqs :
      /\ r1 # r2 /\ req[r1].body = req[r2].body
      /\ req[r1].response.status = 200 /\ req[r1].executed
      /\ req[r2].response.status = 200 /\ req[r2].executed

\* C12: the startup stages run in the order observability, manifest load,
\* engine construction, bind and listen, each beginning only when the one
\* before has completed successfully.
StartupStagesInOrder ==
    /\ pc \in {"log_tracer_init", "exporter_init", "provider_build",
               "set_global_default", "set_provider"} =>
         manifest_writes = 0 /\ ~stargate.built /\ ~bound /\ ~listening
    /\ pc = "read_manifest" => obs_ok /\ manifest_writes = 0 /\ ~stargate.built
    /\ manifest_writes > 0 => obs_ok
    /\ pc = "stargate_new" => manifest_writes = 1 /\ ~stargate.built /\ ~bound
    /\ stargate.built => manifest_writes = 1
    /\ pc = "bind" => stargate.built /\ ~bound /\ ~listening
    /\ bound => stargate.built
    /\ pc = "run" => bound /\ ~listening
    /\ listening => bound

\* C12 witness: the last stage has been reached.
AllStagesDone == listening /\ bound /\ stargate.built /\ obs_ok

\* A request that ended in a per-request error: its payload did not decode,
\* or execute_query returned an error for it.
PerRequestError(r) ==
    \/ req[r].body \in Bodies /\ ~Decode(req[r].body).ok
    \/ req[r].executed /\ ~req[r].result.ok

\* C13: a request that has ended in a per-request error had its request span
\* opened and closed, and the handler's span too if the handler was called.
ErrorsLeaveCompletedSpan ==
    \A r \in Reqs :
      Finished(r) /\ PerRequestError(r) =>
        /\ req[r].span = "closed"
        /\ req[r].ispan # "open"
        /\ req[r].executed => req[r].ispan = "closed"

\* C13 witness: one request failed in the extractor and one in the engine.
BothKindsOfErrorSeen ==
    \E r1, r2 \in Reqs :
      /\ req[r1].pc = "done" /\ req[r1].body \in Bodies /\ ~Decode(req[r1].body).ok
      /\ req[r2].pc = "panicked" /\ req[r2].executed /\ ~req[r2].result.ok

\* The replies a finished request can have got, from its head, its body and
\* the engine's result alone: the empty set stands for no reply at all.
RepliesFor(q) ==
    LET verdict == CorsVerdict(q.method, q.origin) IN
    IF verdict # "pass" THEN {CorsResponse(verdict)}
    ELSE IF ~Decode(q.body).ok THEN JsonPayloadErrorResponses
    ELSE IF q.result.ok
         THEN {[status |-> 200, content_type |-> "application/json",
                body |-> ToJson(q.result)]}
         ELSE {}

\* C14: the status and body of every reply are determined by the request, the
\* manifest and the engine's result, none of which the structured-logging
\* flag enters: runs that differ in the flag only answer the same requests
\* alike, and the flag decides the installed formatting layer only.
RepliesIndependentOfFlag ==
    /\ subscriber # "none" => subscriber = FormatLayer(opt.structured_logging)
    /\ stargate.built =>
         stargate = [built |-> TRUE, schema |-> read_to_string(opt.manifest).text]
    /\ \A r \in Reqs :
         /\ req[r].executed =>
              req[r].result \in
                execute_query([built |-> TRUE,
                               schema |-> read_to_string(opt.manifest).text],
                              [graphql_request |-> [query |-> Decode(req[r].body).query]])
         /\ ~Finished(r) => req[r].response = NoResponse
         /\ Finished(r) =>
              IF RepliesFor(req[r]) = {}
              THEN req[r].pc = "panicked" /\ req[r].response = NoResponse
              ELSE req[r].pc = "done" /\ req[r].response \in RepliesFor(req[r])

\* C14 witness: a query was answered 200 in a run with structured logging on.
AnsweredWithStructuredLogging ==
    /\ opt.structured_logging /\ subscriber = "bunyan"
    /\ \E r \in Reqs : req[r].response.status = 200 /\ req[r].executed

\* C15: a finished request from the trusted origin carries
\* Access-Control-Allow-Origin for it with credentials allowed (and, on a
\* preflight, the methods GET, POST, OPTIONS); a request from another origin
\* never carries the credentials approval.
CorsApprovalForTrustedOnly ==
    \A r \in Reqs :
      Finished(r) =>
        IF req[r].origin = "https://studio.apollographql.com"
        THEN /\ req[r].headers.allow_origin = req[r].origin
             /\ req[r].headers.allow_credentials
             /\ req[r].method = "OPTIONS" =>
                  req[r].headers.allow_methods = {"GET", "POST", "OPTIONS"}
        ELSE /\ ~req[r].headers.allow_credentials
             /\ req[r].headers.allow_origin = ""

\* C16: every request that has entered the middleware went through access
\* logging first and span creation second (so it is logged and has a span),
\* one that reached the dispatcher went through logging, tracing, compression
\* and CORS in that order, and a response unwinds in the reverse order.
MiddlewareInListedOrder ==
    \A r \in Reqs :
      Started(r) =>
        /\ Len(req[r].trail) >= 2
        /\ req[r].trail[1] = "Logger" /\ req[r].trail[2] = "TracingLogger"
        /\ req[r].span # "none"
        /\ req[r].pc \in {"extract", "index", "await"} \/ req[r].body \in Bodies =>
             req[r].trail = <<"Logger", "TracingLogger", "Compress", "Cors">>
        /\ req[r].pc = "done" => req[r].unwound = Reverse(req[r].trail)

ObsSteps == {"log_tracer_init", "exporter_init", "provider_build",
             "set_global_default", "set_provider"}

\* C17: a call of init_observability made after a subscriber was installed
\* does not return: it ends in the panic of a failed installation, and the
\* subscriber and the provider installed by the first call stay as they were.
FurtherInstallFails ==
    obs_calls >= 2 =>
      /\ pc \in ObsSteps \/ proc = "panicked"
      /\ proc = "panicked" => failed \in {"log_bridge", "subscriber"}
      /\ subscriber = FormatLayer(opt.structured_logging)
      /\ installs = 1
      /\ global_provider /\ obs_ok

\* C17 witness: a second call was made and has ended in its panic.
SecondCallPanicked ==
    obs_calls = 2 /\ proc = "panicked" /\ failed = "log_bridge" /\ installs = 1

\* The diagnostics each startup step can die with.
DiagnosticsOf(step) ==
    CASE step = "log_bridge" -> {PanicMessage("Failed to set logger")}
      [] step = "exporter"   -> {PanicMessage("failed to initialize tracer.")}
      [] step = "subscriber" -> {PanicMessage("Failed to set subscriber")}
      [] step = "manifest"   ->
           {ReturnedError(read_to_string(p).err) : p \in {x \in Paths : ~read_to_string(x).ok}}
      [] step = "engine"     -> {PanicMessage("failed parsing schema")}
      [] step = "bind"       -> {ReturnedError(e) : e \in BindErrors}

StartupSteps == {"log_bridge", "exporter", "subscriber", "manifest", "engine", "bind"}

\* C18: the diagnostic of a fatal startup failure identifies the step that
\* failed: no other startup step can die with the same diagnostic.
DiagnosticIdentifiesStep ==
    proc # "running" /\ failed # "none" =>
      {st \in StartupSteps : diagnostic \in DiagnosticsOf(st)} = {failed}

\* C19: the global provider is registered only once the subscriber is
\* installed, and a failed exporter construction ends init_observability with
\* the log bridge installed and neither a subscriber nor a global provider.
ProviderOnlyAfterSubscriber ==
    /\ global_provider => subscriber # "none" /\ installs = 1
    /\ pc = "set_provider" => subscriber # "none" /\ ~global_provider
    /\ failed = "exporter" =>
         /\ proc = "panicked" /\ ~obs_ok
         /\ logger_set
         /\ subscriber = "none" /\ installs = 0
         /\ ~provider /\ ~global_provider

\* C19 witness: exporter construction has failed.
ExporterConstructionFailed == failed = "exporter" /\ proc = "panicked" /\ logger_set

====
